---------------------------- MODULE Spec2Model ----------------------------
(***************************************************************************)
(* PiAlert: threshold evaluation (sensors.py), the per-sensor alert-state  *)
(* machine and the dispatch/pruning handler (alerts.py), driven by the     *)
(* single-threaded HTTP endpoint (http_server.py).                         *)
(*                                                                         *)
(* Time is the wall clock datetime.now(), counted in ticks.  One handle()  *)
(* call runs at one tick; the clock advances between calls.                *)
(***************************************************************************)
EXTENDS Integers, Sequences, FiniteSets, TLC

(***************************************************************************)
(* Bounds of the model.                                                    *)
(***************************************************************************)
MaxTime == 2
MaxAlerts == 4
\* Threshold bounds range over 0..MaxBound, set-points over
\* -MaxSetpoint..MaxSetpoint
MaxBound == 2
MaxSetpoint == 2
\* handle() calls the threads make in all
MaxCalls == 2

(***************************************************************************)
(* Program constants.                                                      *)
(***************************************************************************)
\* alerts.py:16  EXPIRY = timedelta(minutes=..., hours=...), in ticks
EXPIRY == 1
\* alerts.py:17-18  the count thresholds read from alerts.yml
ALERT_THR == 1
WARNING_THR == 2
\* sensors.py:236  IncubatorSensor(temperature=25, humidity=50)
TemperatureSetpoint == 25
HumiditySetpoint == 50
\* sensors.py:178  _default_value(value, 25, 3, 5, TemperatureValue)
TemperatureWarn == 3
TemperatureAlertBand == 5
\* sensors.py:194  _default_value(value, 50, 10, 20, HumidityValue)
HumidityWarn == 10
HumidityAlertBand == 20

\* alerts.py:92  self._notified = None
None == -1

\* alerts.py:10
LEVELS == <<"alert", "warning", "notify", "info">>

\* LEVELS.index(level), 0-based as in Python
LevelIndex(level) == (CHOOSE i \in 1..Len(LEVELS) : LEVELS[i] = level) - 1

\* http_server.py:11  the sensors list; both entries are IncubatorSensors
Sensors == {"incubator0", "incubator1"}

\* The sensors that post readings
Reporting == {"incubator0"}

(***************************************************************************)
(* sensors.py: Threshold, MonitoredValue                                   *)
(***************************************************************************)
\* Threshold.__init__ with a single number: upper = lower
Threshold(lower, level) == [lower |-> lower, upper |-> lower, level |-> level]

\* Variant of Violated: the lower bound is used on both sides
ViolatedSymmetric(th, value, setting) ==
    (value > (setting + th.lower)) \/ (value < (setting - th.lower))

\* Variant of Violated: the boundaries of the band count as violations
ViolatedInclusive(th, value, setting) ==
    (value >= (setting + th.upper)) \/ (value <= (setting - th.lower))

\* Threshold.violated(value, setting)
Violated(th, value, setting) ==
    (value > (setting + th.upper)) \/ (value < (setting - th.lower))

\* MonitoredValue.__init__ / __threshold_factory with numeric warn and alert
MonitoredValue(v_set, warn, alert, kind) ==
    [set |-> v_set,
     alerts |-> <<Threshold(warn, "warning"), Threshold(alert, "alert")>>,
     ALERT |-> kind]

\* TemperatureSensor.temperature / HumiditySensor.humidity setters
TemperatureValue ==
    MonitoredValue(TemperatureSetpoint, TemperatureWarn, TemperatureAlertBand,
                   "TemperatureAlert")

HumidityValue ==
    MonitoredValue(HumiditySetpoint, HumidityWarn, HumidityAlertBand,
                   "HumidityAlert")

\* Variant of HasFeature: every feature name resolves
HasFeatureAlways(sensor, feature) == TRUE

\* The attributes of an IncubatorSensor that getattr() can resolve to a
\* MonitoredValue; any other feature name makes handle() raise AttributeError.
HasFeature(sensor, feature) == feature \in {"temperature", "humidity"}

GetAttr(sensor, feature) ==
    IF feature = "temperature" THEN TemperatureValue ELSE HumidityValue

\* Alert.__init__ called by triggers(), that is for a violated threshold
Alert(threshold, value, trigger, kind, t) ==
    [timestamp |-> t, threshold |-> threshold, value |-> value,
     trigger |-> trigger, type |-> kind]

\* Variant of TriggersFrom: the first violated threshold ends the loop
TriggersFromUntilFirst(mv, i, value, t) ==
    LET V == {j \in i..Len(mv.alerts) : Violated(mv.alerts[j], value, mv.set)}
        f == CHOOSE j \in V : \A k \in V : j <= k
    IN  IF V = {} THEN <<>>
        ELSE <<Alert(mv.alerts[f], value, mv.set, mv.ALERT, t)>>

\* MonitoredValue.triggers(value): one Alert per violated threshold, in the
\* order of self._alerts
RECURSIVE TriggersFrom(_, _, _, _)
TriggersFrom(mv, i, value, t) ==
    IF i > Len(mv.alerts) THEN <<>>
    ELSE (IF Violated(mv.alerts[i], value, mv.set)
            THEN <<Alert(mv.alerts[i], value, mv.set, mv.ALERT, t)>>
            ELSE <<>>) \o TriggersFrom(mv, i + 1, value, t)

Triggers(mv, value, t) == TriggersFrom(mv, 1, value, t)

(***************************************************************************)
(* State.                                                                  *)
(*   handler_alerts  AlertHandler._alerts: sensor -> list of AlertState    *)
(*   now             datetime.now(), in ticks                              *)
(*   last            history of the most recent handle() call              *)
(***************************************************************************)
VARIABLES handler_alerts, now, last

(***************************************************************************)
(* State of the direct calls into sensors.py.                              *)
(*   call   the constructor or method called, with its arguments           *)
(*   ret    how the call ended                                             *)
(***************************************************************************)
VARIABLES call, ret

sensorVars == <<call, ret>>

(***************************************************************************)
(* State of handle() run by threads, one statement group at a time.        *)
(*   heap        the AlertState objects, by identity                       *)
(*   lists       AlertHandler._alerts: sensor -> list of object identities *)
(*   threads     each thread's position in handle() and its local names    *)
(*   overlapped  history: two calls for one sensor have overlapped         *)
(***************************************************************************)
VARIABLES heap, lists, threads, overlapped

threadVars == <<heap, lists, threads, overlapped>>

vars == <<handler_alerts, now, last, call, ret, heap, lists, threads, overlapped>>

(***************************************************************************)
(* alerts.py: AlertState.  Field archive is self._alerts, field new is     *)
(* self._new, field notified is self._notified.                            *)
(***************************************************************************)
\* AlertState.__init__
AlertState(sensor, alerts) ==
    [sensor |-> sensor, new |-> alerts, archive |-> <<>>, notified |-> None]

\* AlertState.alerts
AllAlerts(st) == st.archive \o st.new

\* AlertState.type
Type(st) == AllAlerts(st)[Len(AllAlerts(st))].type

\* isinstance(a, cls) over the classes Alert > TemperatureAlert, HumidityAlert
IsInstance(a, cls) == a.type = cls \/ cls = "Alert"

\* AlertState.severity: the loop over self.alerts, starting from i = 10
RECURSIVE SeverityLoop(_, _)
SeverityLoop(alerts, i) ==
    IF alerts = <<>> THEN i
    ELSE LET v == LevelIndex(Head(alerts).threshold.level)
         IN  SeverityLoop(Tail(alerts), IF v < i THEN v ELSE i)

\* Variant of SeverityIndex: the unexpired alerts only
SeverityIndexOfNew(st) == SeverityLoop(st.new, 10)

SeverityIndex(st) == SeverityLoop(AllAlerts(st), 10)

Severity(st) == LEVELS[SeverityIndex(st) + 1]

\* AlertState.active
Active(st) == Len(st.new) > 0

\* The two counters of AlertState.pending
CountLevel(alerts, level) ==
    Cardinality({i \in 1..Len(alerts) : alerts[i].threshold.level = level})

\* Variant of Pending: the counters run over archived alerts too
PendingCountsArchived(st) ==
    /\ \/ CountLevel(AllAlerts(st), "warning") >= WARNING_THR
       \/ CountLevel(AllAlerts(st), "alert") >= ALERT_THR
    /\ st.notified = None

\* AlertState.pending
Pending(st) ==
    /\ \/ CountLevel(st.new, "warning") >= WARNING_THR
       \/ CountLevel(st.new, "alert") >= ALERT_THR
    /\ st.notified = None

\* AlertState.prune at time t
IsExpired(a, t) == a.timestamp < t - EXPIRY

\* Variant of Prune: one call archives the oldest expired alert only
PruneOnlyFirst(st, t) ==
    LET E == {i \in 1..Len(st.new) : IsExpired(st.new[i], t)}
        f == CHOOSE i \in E : \A k \in E : i <= k
    IN  IF E = {} THEN st
        ELSE [st EXCEPT
                !.archive = Append(@, st.new[f]),
                !.new = SubSeq(st.new, 1, f - 1) \o SubSeq(st.new, f + 1, Len(st.new))]

Prune(st, t) ==
    [st EXCEPT
       !.archive = @ \o SelectSeq(st.new, LAMBDA a : IsExpired(a, t)),
       !.new = SelectSeq(st.new, LAMBDA a : ~IsExpired(a, t))]

\* Variant of Escalates: an alert as severe as the state re-arms it too
EscalatesOrEqual(st, a) ==
    LevelIndex(a.threshold.level) <= LevelIndex(Severity(st))

\* The escalation test of AlertState.update for one incoming alert
Escalates(st, a) ==
    LevelIndex(a.threshold.level) < LevelIndex(Severity(st))

\* The loop of AlertState.update
RECURSIVE UpdateLoop(_, _)
UpdateLoop(st, alerts) ==
    IF alerts = <<>> THEN st
    ELSE LET a == Head(alerts)
             st1 == IF IsInstance(a, Type(st))
                      THEN [st EXCEPT
                              !.notified = IF Escalates(st, a) THEN None ELSE @,
                              !.new = Append(@, a)]
                      ELSE st
         IN  UpdateLoop(st1, Tail(alerts))

\* AlertState.update at time t
Update(st, alerts, t) == Prune(UpdateLoop(st, alerts), t)

(***************************************************************************)
(* alerts.py: AlertHandler                                                 *)
(***************************************************************************)
\* AlertHandler.text: how the call ends.  str(alert) is None for a state
\* that is not active, which print() and SMS_write() reject with TypeError;
\* transport says whether GSMHat / SMS_write / print raises.
TextOutcome(st, transport) ==
    IF ~Active(st) THEN "TypeError"
    ELSE IF transport = "raises" THEN "TransportError"
    ELSE "returned"

\* AlertHandler.text: the state it leaves; alert.notified is assigned last
Text(st, t, transport) ==
    IF TextOutcome(st, transport) = "returned"
      THEN [st EXCEPT !.notified = t]
      ELSE st

\* Variant of FindState: the comparison of types never succeeds
FindStateNever(lst, cls) == 0

\* handle(), lines 186-188: the last state of the list whose type is cls,
\* as an index; 0 stands for state = None
FindState(lst, cls) ==
    LET S == {j \in 1..Len(lst) : Type(lst[j]) = cls}
    IN  IF S = {} THEN 0 ELSE CHOOSE j \in S : \A k \in S : k <= j

\* History only: what one update() call of handle() saw and left
UpdateRecord(before, alerts, after) ==
    [before |-> before, incoming |-> alerts, after |-> after]

\* handle(), lines 182-193: the loop over message.keys() from the i-th key.
\* c.lst is self._alerts[sensor]; c.outcome stays "returned" until an
\* exception ends the call.
RECURSIVE FeatureLoop(_, _, _, _, _)
FeatureLoop(c, sensor, message, i, t) ==
    IF i > Len(message) THEN c
    ELSE IF ~HasFeature(sensor, message[i].feature)
      THEN [c EXCEPT !.outcome = "AttributeError"]
    ELSE LET alerts == Triggers(GetAttr(sensor, message[i].feature),
                                message[i].value, t)
             k == FindState(c.lst, alerts[1].type)
             upd == Update(c.lst[k], alerts, t)
         IN  IF alerts = <<>> THEN FeatureLoop(c, sensor, message, i + 1, t)
             ELSE IF k = 0
               THEN FeatureLoop(
                      [c EXCEPT !.lst = Append(@, AlertState(sensor, alerts))],
                      sensor, message, i + 1, t)
             ELSE FeatureLoop(
                    [c EXCEPT !.lst[k] = upd,
                              !.updates = Append(@, UpdateRecord(c.lst[k], alerts, upd))],
                    sensor, message, i + 1, t)

\* handle(), lines 195-201: the scan from the i-th state of the list.
\* failAt is the ordinal of the text() invocation of this call whose
\* transport raises (0: none does).
RECURSIVE ScanLoop(_, _, _, _)
ScanLoop(c, i, t, failAt) ==
    IF i > Len(c.lst) THEN c
    ELSE LET a == Prune(c.lst[i], t)
             expired == IF ~Active(a) THEN Append(c.expired, i) ELSE c.expired
             transport == IF Len(c.texts) + 1 = failAt THEN "raises" ELSE "works"
             texted == Text(a, t, transport)
             res == TextOutcome(a, transport)
         IN  IF ~Pending(a)
               THEN ScanLoop([c EXCEPT !.lst[i] = a, !.expired = expired],
                             i + 1, t, failAt)
             ELSE IF res = "returned"
               THEN ScanLoop([c EXCEPT !.lst[i] = texted, !.expired = expired,
                                       !.texts = Append(@, [on |-> a, outcome |-> res])],
                             i + 1, t, failAt)
             ELSE [c EXCEPT !.lst[i] = texted, !.expired = expired,
                            !.texts = Append(@, [on |-> a, outcome |-> res]),
                            !.outcome = res]

\* Variant of RemoveExpired: the collected states stay in the list
RemoveExpiredSkipped(c) == c

\* handle(), lines 202-203: remove the states collected in expired
RemoveExpired(c) ==
    LET gone == {c.expired[j] : j \in 1..Len(c.expired)}
        keep(j) == j \notin gone
        Sel[j \in 0..Len(c.lst)] ==
            IF j = 0 THEN <<>>
            ELSE IF keep(j) THEN Append(Sel[j - 1], c.lst[j]) ELSE Sel[j - 1]
        Rem[j \in 0..Len(c.lst)] ==
            IF j = 0 THEN <<>>
            ELSE IF keep(j) THEN Rem[j - 1]
            ELSE Append(Rem[j - 1], Type(c.lst[j]))
    IN  [c EXCEPT !.lst = Sel[Len(c.lst)], !.removed = Rem[Len(c.lst)]]

\* self._alerts[sensor], with lines 179-180 applied
StatesOf(reg, sensor) == IF sensor \in DOMAIN reg THEN reg[sensor] ELSE <<>>

\* Variant of HandleResult: a call that raises in the loop over the features
\* leaves the list as it found it
HandleResultRolledBack(reg, sensor, message, t, failAt) ==
    LET c0 == [lst |-> StatesOf(reg, sensor), outcome |-> "returned",
               updates |-> <<>>, texts |-> <<>>, expired |-> <<>>,
               removed |-> <<>>]
        c1 == FeatureLoop(c0, sensor, message, 1, t)
        c2 == IF c1.outcome = "returned" THEN ScanLoop(c1, 1, t, failAt)
              ELSE [c0 EXCEPT !.outcome = c1.outcome]
    IN  IF c2.outcome = "returned" THEN RemoveExpired(c2) ELSE c2

\* handle(sensor, message) at time t, as a whole
HandleResult(reg, sensor, message, t, failAt) ==
    LET c0 == [lst |-> StatesOf(reg, sensor), outcome |-> "returned",
               updates |-> <<>>, texts |-> <<>>, expired |-> <<>>,
               removed |-> <<>>]
        c1 == FeatureLoop(c0, sensor, message, 1, t)
        c2 == IF c1.outcome = "returned" THEN ScanLoop(c1, 1, t, failAt) ELSE c1
    IN  IF c2.outcome = "returned" THEN RemoveExpired(c2) ELSE c2

(***************************************************************************)
(* sensors.py: the constructors with their argument handling.  A Python    *)
(* value is a record tagged with its type; a float is counted in           *)
(* hundredths and the string 'n%' is PercentValue(n).                           *)
(***************************************************************************)
NoneValue == [t |-> "NoneType"]

IntValue(n) == [t |-> "int", v |-> n]

FloatValue(h) == [t |-> "float", v |-> h]

PercentValue(n) == [t |-> "str", v |-> n]

TupleValue(a, b) == [t |-> "tuple", a |-> a, b |-> b]

\* How a call ends: with a value, or with an exception
Returned(v) == [done |-> TRUE, raised |-> "", value |-> v]

Raised(e) == [done |-> TRUE, raised |-> e, value |-> <<>>]

NotReturned == [done |-> FALSE, raised |-> "", value |-> <<>>]

\* Threshold.__init__(lower, upper, level) of class cls
ThresholdInit(cls, lower, upper, level) ==
    LET unpack == lower.t = "tuple" /\ upper.t = "NoneType"
        lo == IF unpack THEN lower.a ELSE lower
        up0 == IF unpack THEN lower.b ELSE upper
        up == IF up0.t = "NoneType" THEN lo ELSE up0
    IN  IF level \in {"alert", "warning", "notify", "info"}
          THEN Returned([cls |-> cls, lower |-> lo.v, upper |-> up.v,
                         level |-> level])
          ELSE Raised("ValueError")

\* FractionThreshold.__percent_to_float(value), in hundredths
PercentToFloat(value) ==
    IF value.t = "str" THEN Returned(value.v)
    ELSE IF value.t = "float" THEN Returned(value.v)
    ELSE Raised("ValueError")

\* FractionThreshold.__init__(lower, upper, level)
FractionThresholdInit(lower, upper, level) ==
    LET unpack == lower.t = "tuple" /\ upper.t = "NoneType"
        lo == PercentToFloat(IF unpack THEN lower.a ELSE lower)
        up == PercentToFloat(IF unpack THEN lower.b ELSE upper)
    IN  IF lo.raised # "" THEN lo
        ELSE IF up.raised # "" THEN up
        ELSE ThresholdInit("FractionThreshold", FloatValue(lo.value), FloatValue(up.value),
                           level)

\* FractionThreshold.violated(value, setting); th.lower and th.upper are in
\* hundredths, so both sides of each comparison are multiplied by 100
FractionViolated(th, value, setting) ==
    \/ 100 * value > 100 * setting + setting * th.upper
    \/ 100 * value < 100 * setting - setting * th.lower

\* MonitoredValue.__threshold_factory(value, default, level)
ThresholdFactory(value, default, level) ==
    LET v == IF value.t = "NoneType" THEN default ELSE value
    IN  IF v.t = "str" THEN FractionThresholdInit(v, NoneValue, level)
        ELSE ThresholdInit("Threshold", v, NoneValue, level)

\* MonitoredValue.__init__(v_set, warn, alert)
MonitoredValueInit(v_set, warn, alert) ==
    LET w == ThresholdFactory(warn, PercentValue(10), "warning")
        a == ThresholdFactory(alert, PercentValue(20), "alert")
    IN  IF w.raised # "" THEN w
        ELSE IF a.raised # "" THEN a
        ELSE Returned([set |-> v_set, alerts |-> <<w.value, a.value>>])

(***************************************************************************)
(* Inputs.                                                                 *)
(***************************************************************************)
\* The readings a request can carry: for each monitored feature a value on
\* the warning boundary (no violation), one past the warning band and one
\* past the alert band; "pressure" is a feature no sensor exposes.
Features == {"temperature", "humidity", "pressure"}

Readings(feature) ==
    CASE feature = "temperature" -> {28, 29, 31}
      [] feature = "humidity" -> {61}
      [] OTHER -> {0}

Pairs == UNION {{[feature |-> f, value |-> v] : v \in Readings(f)} : f \in Features}

\* json.loads(...) of the request body: an ordered mapping of one key, or of
\* a temperature reading out of band followed by a second key
Messages ==
    {<<p>> : p \in Pairs}
      \cup {m \in {<<p, q>> : p \in Pairs, q \in Pairs} :
              /\ m[1].feature = "temperature"
              /\ Violated(TemperatureValue.alerts[1], m[1].value, TemperatureValue.set)
              /\ m[2].feature # "temperature"}

\* Number of alerts held by the registry
RECURSIVE SumLen(_)
SumLen(lst) ==
    IF lst = <<>> THEN 0 ELSE Len(AllAlerts(Head(lst))) + SumLen(Tail(lst))

RECURSIVE RegistryAlerts(_, _)
RegistryAlerts(reg, S) ==
    IF S = {} THEN 0
    ELSE LET s == CHOOSE x \in S : TRUE
         IN  SumLen(StatesOf(reg, s)) + RegistryAlerts(reg, S \ {s})

(***************************************************************************)
(* The state machine.                                                      *)
(***************************************************************************)
\* No call into sensors.py is under way
NoSensorCall == [fn |-> "none"]

\* The threads that call handle()
Threads == {"t1", "t2"}

\* A thread outside handle(); the fields sensor to failAt describe its last
\* call.  History: entry is the sensor's list when the call began, alone
\* says that no call for the same sensor ran during the call, parallel that
\* a call for another sensor did.
IdleThread ==
    [pc |-> "idle", sensor |-> "none", message |-> <<>>, i |-> 0,
     alerts |-> <<>>, state |-> 0, k |-> 0, a |-> 0, expired |-> <<>>,
     texts |-> <<>>, outcome |-> "returned", entry |-> <<>>, alone |-> TRUE,
     parallel |-> FALSE, failAt |-> 0, calls |-> 0]

\* A slot of the heap that holds no object
Free == [live |-> FALSE]

ObjectIds == 1..MaxAlerts

InitThreads ==
    /\ heap = [id \in ObjectIds |-> Free]
    /\ lists = <<>>
    /\ threads = [t \in Threads |-> IdleThread]
    /\ overlapped = FALSE

NoCall ==
    [sensor |-> "none", message |-> <<>>, outcome |-> "returned",
     updates |-> <<>>, texts |-> <<>>, removed |-> <<>>]

\* AlertHandler.__init__
Init ==
    /\ handler_alerts = <<>>
    /\ now = 0
    /\ last = NoCall
    /\ call = NoSensorCall
    /\ ret = NotReturned
    /\ InitThreads

\* alerts_handler.handle(sensor, message), with its history
Handle(sensor, message, failAt) ==
    \E r \in {HandleResult(handler_alerts, sensor, message, now, failAt)} :
      \E reg \in {[s \in DOMAIN handler_alerts \cup {sensor} |->
                     IF s = sensor THEN r.lst ELSE handler_alerts[s]]} :
        /\ RegistryAlerts(reg, Sensors) <= MaxAlerts
        /\ handler_alerts' = reg
        /\ last' = [sensor |-> sensor, message |-> message,
                    outcome |-> r.outcome, updates |-> r.updates,
                    texts |-> r.texts, removed |-> r.removed]
        /\ UNCHANGED <<now, sensorVars, threadVars>>

\* The wall clock advances between requests; the history of the last call
\* is kept only for the tick the call ran in
Tick ==
    /\ now < MaxTime
    /\ now' = now + 1
    /\ last' = NoCall
    /\ UNCHANGED <<handler_alerts, sensorVars, threadVars>>

\* The number of text() invocations of handle(sensor, message) when the
\* transport works
Invocations(sensor, message) ==
    Len(HandleResult(handler_alerts, sensor, message, now, 0).texts)

\* _RequestHandler.do_POST for a sensor of the list: one request is served
\* at a time (HTTPServer is not threaded), and an exception that leaves
\* handle() ends the request, not the server
DoPost ==
    \E sensor \in Reporting, message \in Messages :
      \E failAt \in 0..Invocations(sensor, message) :
        Handle(sensor, message, failAt)

Next == DoPost \/ Tick

Spec == Init /\ [][Next]_vars

(***************************************************************************)
(* Direct calls into sensors.py: a call is chosen with its arguments, then *)
(* it runs.                                                                *)
(***************************************************************************)
Bounds == 0..MaxBound

Setpoints == (0 - MaxSetpoint)..MaxSetpoint

Deviations == (0 - (MaxBound + 1))..(MaxBound + 1)

\* Threshold((lower, upper)).violated(value, setting)
ThresholdCalls ==
    {[fn |-> "Threshold.violated", lower |-> l, upper |-> u,
      value |-> v + d, setting |-> v] :
       l \in Bounds, u \in Bounds, v \in Setpoints, d \in Deviations}

\* FractionThreshold(('l%', 'u%')).violated(value, setting), the bounds in
\* steps of ten percent and the set-points in steps of ten
FractionCalls ==
    {[fn |-> "FractionThreshold.violated", lower |-> 10 * l, upper |-> 10 * u,
      value |-> 10 * v + d, setting |-> 10 * v] :
       l \in Bounds, u \in Bounds, v \in Setpoints, d \in Deviations}

\* MonitoredValue(25, warn=3, alert=5).triggers(value) and the same of a
\* TemperatureValue
TriggersCalls ==
    {[fn |-> "MonitoredValue.triggers", kind |-> k,
      value |-> TemperatureSetpoint + d + e] :
       k \in {"Alert", "TemperatureAlert"},
       d \in {0 - TemperatureAlertBand, 0, TemperatureAlertBand},
       e \in Deviations}

\* MonitoredValue(v_set, warn, alert) with each threshold left out, a
\* number, or a percentage given as a pair
ThresholdValues ==
    {NoneValue, IntValue(MaxBound + 1),
     TupleValue(FloatValue(10), FloatValue(10 * MaxBound))}

ConstructorCalls ==
    {[fn |-> "MonitoredValue", v_set |-> 10 * v, warn |-> w, alert |-> a] :
       v \in Setpoints, w \in ThresholdValues, a \in ThresholdValues}

SensorCalls == ThresholdCalls \cup FractionCalls \cup TriggersCalls \cup ConstructorCalls

InitSensors ==
    /\ handler_alerts = <<>>
    /\ now = 0
    /\ last = NoCall
    /\ call \in SensorCalls
    /\ ret = NotReturned
    /\ InitThreads

Runs(fn) == call.fn = fn /\ ~ret.done

CallThresholdViolated ==
    /\ Runs("Threshold.violated")
    /\ LET th == ThresholdInit("Threshold",
                               TupleValue(IntValue(call.lower), IntValue(call.upper)),
                               NoneValue, "warning")
       IN  ret' = IF th.raised # "" THEN th
                  ELSE Returned(Violated(th.value, call.value, call.setting))
    /\ UNCHANGED <<handler_alerts, now, last, call, threadVars>>

CallFractionViolated ==
    /\ Runs("FractionThreshold.violated")
    /\ LET th == FractionThresholdInit(
                   TupleValue(PercentValue(call.lower), PercentValue(call.upper)),
                   NoneValue, "warning")
       IN  ret' = IF th.raised # "" THEN th
                  ELSE Returned(FractionViolated(th.value, call.value, call.setting))
    /\ UNCHANGED <<handler_alerts, now, last, call, threadVars>>

CallTriggers ==
    /\ Runs("MonitoredValue.triggers")
    /\ ret' = Returned(Triggers(MonitoredValue(TemperatureSetpoint, TemperatureWarn,
                                               TemperatureAlertBand, call.kind),
                                call.value, now))
    /\ UNCHANGED <<handler_alerts, now, last, call, threadVars>>

CallMonitoredValue ==
    /\ Runs("MonitoredValue")
    /\ ret' = MonitoredValueInit(call.v_set, call.warn, call.alert)
    /\ UNCHANGED <<handler_alerts, now, last, call, threadVars>>

NextSensors ==
    \/ CallThresholdViolated
    \/ CallFractionViolated
    \/ CallTriggers
    \/ CallMonitoredValue

SpecSensors == InitSensors /\ [][NextSensors]_vars

(***************************************************************************)
(* handle() run by threads.  A step is one group of statements of          *)
(* handle(): entering the call, looking up the state of a feature's kind,  *)
(* registering or updating it, pruning the next state of the scan,         *)
(* testing pending, the transport call of text(), the assignment of        *)
(* notified, and the removal loop.  The clock advances between calls.      *)
(***************************************************************************)
\* A new AlertState object; fired counts the text() invocations on the
\* object since it was created or last escalated (history)
Object(st) == [live |-> TRUE, st |-> st, fired |-> 0]

\* The AlertStates a list of identities refers to
DerefIn(h, lst) == [j \in 1..Len(lst) |-> h[lst[j]].st]

\* Variant of ThreadList: one list is shared by all sensors
ThreadListShared(lsts, sensor) == lsts[CHOOSE s \in DOMAIN lsts : TRUE]

\* self._alerts[sensor]
ThreadList(lsts, sensor) == lsts[sensor]

\* Number of alerts held by the objects of the heap
RECURSIVE HeapAlertsFrom(_, _)
HeapAlertsFrom(h, id) ==
    IF id > MaxAlerts THEN 0
    ELSE (IF h[id].live THEN Len(AllAlerts(h[id].st)) ELSE 0)
           + HeapAlertsFrom(h, id + 1)

HeapAlerts(h) == HeapAlertsFrom(h, 1)

\* Reference counting: an object that no list and no local name of a thread
\* refers to is freed
Referenced(lsts, ths) ==
    UNION {{lsts[s][j] : j \in 1..Len(lsts[s])} : s \in DOMAIN lsts}
      \cup UNION {{ths[t].state, ths[t].a} \cup
                    {ths[t].expired[j] : j \in 1..Len(ths[t].expired)} : t \in Threads}

Collect(h, lsts, ths) ==
    [id \in ObjectIds |-> IF id \in Referenced(lsts, ths) THEN h[id] ELSE Free]

Commit(h, lsts, ths) ==
    /\ heap' = Collect(h, lsts, ths)
    /\ lists' = lsts
    /\ threads' = ths
    /\ UNCHANGED <<handler_alerts, now, last, sensorVars>>

\* The call ends, by return or by an exception
Finish(th, outcome) ==
    [th EXCEPT !.pc = "idle", !.outcome = outcome, !.i = 0, !.alerts = <<>>,
               !.state = 0, !.k = 0, !.a = 0, !.expired = <<>>]

\* handle(), line 182: the next key of the message, or on to the scan
NextFeature(th) ==
    [th EXCEPT !.pc = IF th.i + 1 > Len(th.message) THEN "scan" ELSE "lookup",
               !.i = th.i + 1, !.k = 1, !.alerts = <<>>, !.state = 0]

\* The calls made so far
RECURSIVE CallsOf(_)
CallsOf(T) ==
    IF T = {} THEN 0
    ELSE LET t == CHOOSE u \in T : TRUE
         IN  threads[t].calls + CallsOf(T \ {t})

CallsMade == CallsOf(Threads)

\* handle(), lines 177-180
Begin(t, sensor, message) ==
    LET th == threads[t]
        busy == {u \in Threads \ {t} :
                   threads[u].pc # "idle" /\ threads[u].sensor = sensor}
        beside == {u \in Threads \ {t} :
                     threads[u].pc # "idle" /\ threads[u].sensor # sensor}
        lsts == [s \in DOMAIN lists \cup {sensor} |->
                   IF s \in DOMAIN lists THEN lists[s] ELSE <<>>]
    IN  /\ th.pc = "idle"
        /\ CallsMade < MaxCalls
        /\ overlapped' = (overlapped \/ busy # {})
        /\ Commit(heap, lsts,
                  [u \in Threads |->
                     IF u = t
                       THEN [IdleThread EXCEPT
                               !.pc = "lookup", !.sensor = sensor,
                               !.message = message, !.i = 1,
                               !.outcome = "running",
                               !.entry = DerefIn(heap, lsts[sensor]),
                               !.alone = (busy = {}),
                               !.parallel = (beside # {}),
                               !.calls = th.calls + 1]
                     ELSE IF u \in busy THEN [threads[u] EXCEPT !.alone = FALSE]
                     ELSE IF u \in beside THEN [threads[u] EXCEPT !.parallel = TRUE]
                     ELSE threads[u]])

\* handle(), lines 183-188
Lookup(t) ==
    LET th == threads[t]
        m == th.message[th.i]
        alerts == Triggers(GetAttr(th.sensor, m.feature), m.value, now)
        lst == ThreadList(lists, th.sensor)
        k == FindState(DerefIn(heap, lst), alerts[1].type)
    IN  /\ th.pc = "lookup"
        /\ UNCHANGED overlapped
        /\ IF ~HasFeature(th.sensor, m.feature)
             THEN Commit(heap, lists,
                         [threads EXCEPT ![t] = Finish(th, "AttributeError")])
           ELSE IF alerts = <<>>
             THEN Commit(heap, lists, [threads EXCEPT ![t] = NextFeature(th)])
           ELSE /\ HeapAlerts(heap) + Len(alerts) <= MaxAlerts
                /\ Commit(heap, lists,
                          [threads EXCEPT ![t] =
                             [th EXCEPT !.pc = "merge", !.alerts = alerts,
                                        !.state = IF k = 0 THEN 0 ELSE lst[k]]])

\* handle(), lines 189-193
Merge(t) ==
    LET th == threads[t]
        id == CHOOSE i \in ObjectIds : ~heap[i].live /\ \A j \in 1..(i - 1) : heap[j].live
        before == heap[th.state].st
        after == Update(before, th.alerts, now)
    IN  /\ th.pc = "merge"
        /\ UNCHANGED overlapped
        /\ IF th.state = 0
             THEN Commit([heap EXCEPT ![id] = Object(AlertState(th.sensor, th.alerts))],
                         [lists EXCEPT ![th.sensor] = Append(@, id)],
                         [threads EXCEPT ![t] = NextFeature(th)])
             ELSE Commit([heap EXCEPT ![th.state] =
                            [@ EXCEPT !.st = after,
                                      !.fired = IF SeverityIndex(after) < SeverityIndex(before)
                                                  THEN 0 ELSE @]],
                         lists,
                         [threads EXCEPT ![t] = NextFeature(th)])

\* handle(), lines 196-199: the next state of the list is pruned
ScanPrune(t) ==
    LET th == threads[t]
        lst == ThreadList(lists, th.sensor)
        a == lst[th.k]
        pruned == Prune(heap[a].st, now)
    IN  /\ th.pc = "scan"
        /\ UNCHANGED overlapped
        /\ IF th.k > Len(lst)
             THEN Commit(heap, lists, [threads EXCEPT ![t] = [th EXCEPT !.pc = "remove"]])
             ELSE Commit([heap EXCEPT ![a].st = pruned], lists,
                         [threads EXCEPT ![t] =
                            [th EXCEPT !.pc = "pending", !.a = a,
                                       !.expired = IF Active(pruned) THEN @
                                                   ELSE Append(@, a)]])

\* handle(), line 200
TestPending(t) ==
    LET th == threads[t]
    IN  /\ th.pc = "pending"
        /\ UNCHANGED overlapped
        /\ Commit(heap, lists,
                  [threads EXCEPT ![t] =
                     IF Pending(heap[th.a].st)
                       THEN [th EXCEPT !.pc = "notify"]
                       ELSE [th EXCEPT !.pc = "scan", !.k = th.k + 1, !.a = 0]])

\* text(), lines 207-212: the transport call
Notify(t, transport) ==
    LET th == threads[t]
        st == heap[th.a].st
        res == TextOutcome(st, transport)
        texts == Append(th.texts, [on |-> st, outcome |-> res])
    IN  /\ th.pc = "notify"
        /\ UNCHANGED overlapped
        /\ Commit([heap EXCEPT ![th.a].fired = IF res = "TypeError" THEN @ ELSE @ + 1],
                  lists,
                  [threads EXCEPT ![t] =
                     IF res = "returned"
                       THEN [th EXCEPT !.pc = "stamp", !.texts = texts]
                       ELSE [Finish(th, res) EXCEPT
                               !.texts = texts,
                               !.failAt = IF res = "TransportError"
                                            THEN Len(texts) ELSE 0]])

\* text(), line 213
Stamp(t) ==
    LET th == threads[t]
    IN  /\ th.pc = "stamp"
        /\ UNCHANGED overlapped
        /\ Commit([heap EXCEPT ![th.a].st.notified = now], lists,
                  [threads EXCEPT ![t] =
                     [th EXCEPT !.pc = "scan", !.k = th.k + 1, !.a = 0]])

\* list.remove(x): the list without the first occurrence of x
RemoveFirst(lst, x) ==
    LET p == CHOOSE j \in 1..Len(lst) : lst[j] = x /\ \A i \in 1..(j - 1) : lst[i] # x
    IN  SubSeq(lst, 1, p - 1) \o SubSeq(lst, p + 1, Len(lst))

\* handle(), lines 202-203; list.remove raises ValueError for an object
\* that is no longer in the list
RECURSIVE RemoveLoop(_, _)
RemoveLoop(lst, ids) ==
    IF ids = <<>> THEN [lst |-> lst, outcome |-> "returned"]
    ELSE IF \A j \in 1..Len(lst) : lst[j] # Head(ids)
      THEN [lst |-> lst, outcome |-> "ValueError"]
    ELSE RemoveLoop(RemoveFirst(lst, Head(ids)), Tail(ids))

Remove(t) ==
    LET th == threads[t]
        r == RemoveLoop(ThreadList(lists, th.sensor), th.expired)
    IN  /\ th.pc = "remove"
        /\ UNCHANGED overlapped
        /\ Commit(heap, [lists EXCEPT ![th.sensor] = r.lst],
                  [threads EXCEPT ![t] = Finish(th, r.outcome)])

\* What the threads post: a temperature in band, one past the warning band
\* and one past the alert band
ThreadMessages ==
    {<<[feature |-> "temperature", value |-> v]>> : v \in {28, 29, 31}}

\* The first thread serves incubator0, the second either sensor
ThreadSensors(t) == IF t = "t1" THEN {"incubator0"} ELSE Sensors

BeginCall ==
    \E t \in Threads : \E sensor \in ThreadSensors(t), message \in ThreadMessages :
      Begin(t, sensor, message)

LookupStep == \E t \in Threads : Lookup(t)

MergeStep == \E t \in Threads : Merge(t)

ScanStep == \E t \in Threads : ScanPrune(t)

PendingStep == \E t \in Threads : TestPending(t)

NotifyStep == \E t \in Threads : \E transport \in {"works", "raises"} : Notify(t, transport)

StampStep == \E t \in Threads : Stamp(t)

RemoveStep == \E t \in Threads : Remove(t)

\* The clock advances while no call is under way; the history of the calls
\* is kept only for the tick they ran in
ThreadsTick ==
    /\ \A t \in Threads : threads[t].pc = "idle"
    /\ now < MaxTime
    /\ now' = now + 1
    /\ threads' = [t \in Threads |-> [IdleThread EXCEPT !.calls = threads[t].calls]]
    /\ UNCHANGED <<handler_alerts, last, sensorVars, heap, lists, overlapped>>

NextThreads ==
    \/ BeginCall
    \/ LookupStep
    \/ MergeStep
    \/ ScanStep
    \/ PendingStep
    \/ NotifyStep
    \/ StampStep
    \/ RemoveStep
    \/ ThreadsTick

SpecThreads == Init /\ [][NextThreads]_vars

(***************************************************************************)
(* Vocabulary of the properties.                                           *)
(***************************************************************************)
\* The states registered for a sensor, now and after the step
Registered(sensor) == StatesOf(handler_alerts, sensor)

RegisteredNext(sensor) == StatesOf(handler_alerts', sensor)

\* A handle() call has run in the current tick
Called == last.sensor # "none"

\* The most severe level index among a sequence of alerts, as a set minimum
MostSevere(alerts) ==
    LET I == {LevelIndex(alerts[j].threshold.level) : j \in 1..Len(alerts)}
    IN  CHOOSE m \in I : \A n \in I : m <= n

\* How many alerts of a sequence have the level and satisfy P
Count(alerts, level, P(_)) ==
    Cardinality({j \in 1..Len(alerts) :
                   alerts[j].threshold.level = level /\ P(alerts[j])})

AnyAlert(a) == TRUE

\* The count thresholds are reached by the alerts of a sequence that satisfy P
Reached(alerts, P(_)) ==
    \/ Count(alerts, "warning", P) >= WARNING_THR
    \/ Count(alerts, "alert", P) >= ALERT_THR

\* text() was invoked on the state of this type during the call l
Texted(l, type) == \E i \in 1..Len(l.texts) : Type(l.texts[i].on) = type

\* An update() of the call l re-armed the state of this type: some incoming
\* alert was strictly more severe than the state
Rearmed(l, type) ==
    \E i \in 1..Len(l.updates) :
      /\ Type(l.updates[i].before) = type
      /\ \E j \in 1..Len(l.updates[i].incoming) :
           LevelIndex(l.updates[i].incoming[j].threshold.level)
             < MostSevere(AllAlerts(l.updates[i].before))

(***************************************************************************)
(* C1: the notifier is invoked at most once per escalation episode:        *)
(* between two invocations of text() on the same AlertState there is an    *)
(* update() in which an incoming alert strictly more severe than the       *)
(* state's severity reset notified to None.  Stated for two consecutive    *)
(* handle() calls of one tick.                                             *)
(***************************************************************************)
C1_OncePerEpisode ==
    [][\A type \in {"TemperatureAlert", "HumidityAlert"} :
         (/\ last'.sensor = last.sensor
          /\ Texted(last, type)
          /\ Texted(last', type)) => Rearmed(last', type)]_vars

(***************************************************************************)
(* C5: when the transport raises inside text(), the state's gate is        *)
(* closed all the same: after the call notified is set and pending is      *)
(* false for that state.                                                   *)
(***************************************************************************)
C5_GateClosedOnFailure ==
    \A i \in 1..Len(last.texts) :
      last.texts[i].outcome = "TransportError" =>
        \A j \in 1..Len(Registered(last.sensor)) :
          LET st == Registered(last.sensor)[j]
          IN  Type(st) = Type(last.texts[i].on) =>
                st.notified # None /\ ~Pending(st)

(***************************************************************************)
(* C2: a run of handle() calls that each contribute one warning-level      *)
(* alert of one kind, all inside the expiry window and with the alert      *)
(* count threshold not reached, for a sensor that holds no other           *)
(* AlertState: nothing fires before the alert number                       *)
(* WARNING_THR, the call that brings it invokes the notifier, the notifier *)
(* is invoked once only, and a later warning that meets notified set       *)
(* leaves pending false and fires nothing.                                 *)
(***************************************************************************)
\* The call l carried one reading, which triggered one warning-level alert
WarnCall(l) ==
    /\ l.sensor # "none"
    /\ Len(l.message) = 1
    /\ HasFeature(l.sensor, l.message[1].feature)
    /\ LET alerts == Triggers(GetAttr(l.sensor, l.message[1].feature),
                              l.message[1].value, 0)
       IN  Len(alerts) = 1 /\ alerts[1].threshold.level = "warning"

WarnKind(l) == GetAttr(l.sensor, l.message[1].feature).ALERT

\* The state holds warning-level alerts only, none of them expired
WarningRun(st) ==
    /\ st.archive = <<>>
    /\ \A j \in 1..Len(st.new) : st.new[j].threshold.level = "warning"

C2_WarningRunFiresOnce ==
    [][WarnCall(last') =>
         \A j \in 1..Len(RegisteredNext(last'.sensor)) :
           LET st == RegisteredNext(last'.sensor)[j]
               k == FindState(Registered(last'.sensor), WarnKind(last'))
           IN  (/\ Len(RegisteredNext(last'.sensor)) = 1
                /\ Type(st) = WarnKind(last')
                /\ WarningRun(st)) =>
                 /\ Len(st.new) < WARNING_THR =>
                      ~Texted(last', Type(st)) /\ st.notified = None
                 /\ Len(st.new) = WARNING_THR => Texted(last', Type(st))
                 /\ (k # 0 /\ Registered(last'.sensor)[k].notified # None) =>
                      ~Texted(last', Type(st)) /\ ~Pending(st)
                 /\ (/\ WarnCall(last)
                     /\ last.sensor = last'.sensor
                     /\ WarnKind(last) = WarnKind(last')
                     /\ Texted(last, Type(st))) => ~Texted(last', Type(st))]_vars

(***************************************************************************)
(* C3: escalation invariant of update().  With notified set, an incoming   *)
(* alert whose level index is greater than or equal to the index of the    *)
(* state's severity leaves notified unchanged, and one whose index is      *)
(* strictly lower resets it to None; so an update() whose alerts are all   *)
(* of the first sort leaves notified as it was, and one that holds an      *)
(* alert of the second sort leaves None.                                   *)
(***************************************************************************)
Index(a) == LevelIndex(a.threshold.level)

C3_EscalationInvariant ==
    \A i \in 1..Len(last.updates) :
      LET u == last.updates[i]
          sev == MostSevere(AllAlerts(u.before))
          n == Len(u.incoming)
          pre(j) == UpdateLoop(u.before, SubSeq(u.incoming, 1, j - 1))
          post(j) == UpdateLoop(u.before, SubSeq(u.incoming, 1, j))
      IN  /\ \A j \in 1..n :
               pre(j).notified # None =>
                 IF Index(u.incoming[j]) >= MostSevere(AllAlerts(pre(j)))
                   THEN post(j).notified = pre(j).notified
                   ELSE post(j).notified = None
          /\ u.before.notified # None =>
               IF \A j \in 1..n : Index(u.incoming[j]) >= sev
                 THEN u.after.notified = u.before.notified
                 ELSE u.after.notified = None

\* An update() met notified set and an incoming alert more severe than the
\* state, and left None
C3_Witness ==
    \E i \in 1..Len(last.updates) :
      LET u == last.updates[i]
      IN  /\ u.before.notified # None
          /\ \E j \in 1..Len(u.incoming) :
               Index(u.incoming[j]) < MostSevere(AllAlerts(u.before))
          /\ u.after.notified = None

\* An update() met notified set and alerts no more severe than the state
C3_WitnessUnchanged ==
    \E i \in 1..Len(last.updates) :
      LET u == last.updates[i]
      IN  /\ u.before.notified # None
          /\ \A j \in 1..Len(u.incoming) :
               Index(u.incoming[j]) >= MostSevere(AllAlerts(u.before))
          /\ u.after.notified = u.before.notified

(***************************************************************************)
(* C4: repeats are suppressed only until the situation clears.  Once every *)
(* alert of a notified AlertState is older than the expiry window (at some *)
(* time c), a later run of alerts of the kind that reaches a count         *)
(* threshold fires the notifier again, whatever handle() calls were made   *)
(* in between: after a handle() call that returned, such a state was       *)
(* notified at c or later.                                                 *)
(***************************************************************************)
\* At time c every alert the state then held had expired
ClearedAt(st, c) ==
    \A j \in 1..Len(AllAlerts(st)) :
      LET a == AllAlerts(st)[j]
      IN  a.timestamp < c => a.timestamp < c - EXPIRY

Since(c, a) == a.timestamp >= c

C4_FiresAgainAfterClearing ==
    (Called /\ last.outcome = "returned") =>
      \A j \in 1..Len(Registered(last.sensor)), c \in 1..now :
        LET st == Registered(last.sensor)[j]
            run(a) == Since(c, a)
        IN  (/\ st.notified # None
             /\ \E i \in 1..Len(AllAlerts(st)) : AllAlerts(st)[i].timestamp < c
             /\ ClearedAt(st, c)
             /\ Reached(st.new, run)) => st.notified >= c

(***************************************************************************)
(* C6: after a handle(sensor, ...) call that returned, no AlertState       *)
(* registered for the sensor is inactive: each has an alert in new that    *)
(* has not expired at the time of the call.                                *)
(***************************************************************************)
C6_NoInactiveStateLeft ==
    (Called /\ last.outcome = "returned") =>
      \A j \in 1..Len(Registered(last.sensor)) :
        LET st == Registered(last.sensor)[j]
        IN  /\ st.new # <<>>
            /\ \E i \in 1..Len(st.new) : st.new[i].timestamp >= now - EXPIRY

\* Scenario D: a call that returned removed a state all of whose alerts had
\* expired
C6_Witness ==
    /\ Called
    /\ last.outcome = "returned"
    /\ last.removed # <<>>

(***************************************************************************)
(* C7: each sensor has at most one AlertState per alert kind, each         *)
(* AlertState holds at least one alert, and the alerts of one AlertState   *)
(* are all of one kind.                                                    *)
(***************************************************************************)
C7_RegistryShape ==
    \A sensor \in DOMAIN handler_alerts :
      LET lst == handler_alerts[sensor]
      IN  /\ \A i, j \in 1..Len(lst) :
               i # j => AllAlerts(lst[i])[1].type # AllAlerts(lst[j])[1].type
          /\ \A i \in 1..Len(lst) :
               /\ Len(lst[i].new) + Len(lst[i].archive) >= 1
               /\ \A a, b \in 1..Len(AllAlerts(lst[i])) :
                    AllAlerts(lst[i])[a].type = AllAlerts(lst[i])[b].type

\* A sensor with a state of each kind, one of them updated at least once
C7_Witness ==
    \E sensor \in DOMAIN handler_alerts :
      /\ Len(handler_alerts[sensor]) = 2
      /\ \E i \in 1..2 : Len(AllAlerts(handler_alerts[sensor][i])) >= 3

(***************************************************************************)
(* C8: the notifier is invoked only on a state whose unexpired alerts      *)
(* reach the warning count threshold or the alert count threshold and      *)
(* whose notified is None; and a call that returned leaves no state of the *)
(* sensor with a threshold reached and notified None.                      *)
(***************************************************************************)
C8_FiresOnlyAtThreshold ==
    /\ \A i \in 1..Len(last.texts) :
         LET st == last.texts[i].on
             live(a) == a.timestamp >= now - EXPIRY
         IN  /\ Reached(AllAlerts(st), live)
             /\ st.notified = None
    /\ (Called /\ last.outcome = "returned") =>
         \A j \in 1..Len(Registered(last.sensor)) :
           LET st == Registered(last.sensor)[j]
           IN  Reached(st.new, AnyAlert) => st.notified # None

\* A call fired for one state and left another below both thresholds
C8_Witness ==
    /\ Called
    /\ last.outcome = "returned"
    /\ last.texts # <<>>
    /\ \E j \in 1..Len(Registered(last.sensor)) :
         LET st == Registered(last.sensor)[j]
         IN  ~Reached(st.new, AnyAlert) /\ st.notified = None

(***************************************************************************)
(* C9: the severity of an AlertState is the most severe level over its new *)
(* and archived alerts, and over the lifetime of a registered AlertState   *)
(* its index never increases, also when prune() archives the alert that    *)
(* raised it.                                                              *)
(***************************************************************************)
C9_StickySeverity ==
    [][\A sensor \in DOMAIN handler_alerts' :
         \A j \in 1..Len(RegisteredNext(sensor)) :
           LET st == RegisteredNext(sensor)[j]
           IN  /\ SeverityIndex(st) = MostSevere(AllAlerts(st))
               /\ Severity(st) = LEVELS[MostSevere(AllAlerts(st)) + 1]
               /\ \A i \in 1..Len(Registered(sensor)) :
                    Type(Registered(sensor)[i]) = Type(st) =>
                      SeverityIndex(st) <= SeverityIndex(Registered(sensor)[i])]_vars

\* The alert-level alert that raised the severity is archived, the
\* unexpired alerts are warnings, and the severity is still "alert"
C9_Witness ==
    \E sensor \in DOMAIN handler_alerts :
      \E j \in 1..Len(handler_alerts[sensor]) :
        LET st == handler_alerts[sensor][j]
        IN  /\ \E i \in 1..Len(st.archive) : st.archive[i].threshold.level = "alert"
            /\ st.new # <<>>
            /\ \A i \in 1..Len(st.new) : st.new[i].threshold.level = "warning"
            /\ Severity(st) = "alert"


(***************************************************************************)
(* C10 as stated: a handle() call none of whose readings violates a        *)
(* threshold is not an error, invokes no notifier, changes no notified,    *)
(* appends no alert and creates no AlertState; all it does is prune and    *)
(* remove the states pruning left inactive.                                *)
(***************************************************************************)
InBand(p) ==
    \/ /\ p.feature = "temperature"
       /\ p.value <= TemperatureSetpoint + TemperatureWarn
       /\ p.value >= TemperatureSetpoint - TemperatureWarn
    \/ /\ p.feature = "humidity"
       /\ p.value <= HumiditySetpoint + HumidityWarn
       /\ p.value >= HumiditySetpoint - HumidityWarn

InBandCall(l) ==
    /\ l.sensor # "none"
    /\ \A i \in 1..Len(l.message) : InBand(l.message[i])

Live(a) == a.timestamp >= now - EXPIRY

Archived(st) == [st EXCEPT !.archive = @ \o SelectSeq(st.new, LAMBDA a : ~Live(a)),
                           !.new = SelectSeq(st.new, Live)]

PrunedAndKept(lst) ==
    SelectSeq([i \in 1..Len(lst) |-> Archived(lst[i])], LAMBDA st : st.new # <<>>)

PendingAtEntry(st) == Reached(st.new, Live) /\ st.notified = None

Exposed(feature) == feature = "temperature" \/ feature = "humidity"

NamesUnknownFeature(l) ==
    \E i \in 1..Len(l.message) : ~Exposed(l.message[i].feature)

C12_UnknownFeaturePropagates ==
    (Called /\ NamesUnknownFeature(last)) => last.outcome = "AttributeError"

\* A call whose only key is an unknown feature raised
C12_Witness ==
    /\ Called
    /\ Len(last.message) = 1
    /\ ~Exposed(last.message[1].feature)
    /\ last.outcome = "AttributeError"

(***************************************************************************)
(* C20: a handle() call whose message holds a violating temperature        *)
(* reading before an unknown feature raises; the alerts of the reading     *)
(* are appended to the sensor's TemperatureAlert state, or registered as a *)
(* new one; the scan does not run: no notifier is invoked, no state is     *)
(* removed, and the states of other kinds are left as they were.           *)
(***************************************************************************)
RaisesAfterMerge(l) ==
    /\ l.sensor # "none"
    /\ Len(l.message) = 2
    /\ l.message[1].feature = "temperature"
    /\ l.message[1].value > TemperatureSetpoint + TemperatureWarn
    /\ ~Exposed(l.message[2].feature)

\* The number of thresholds a temperature reading above the set-point violates
Exceeded(v) ==
    (IF v > TemperatureSetpoint + TemperatureWarn THEN 1 ELSE 0)
      + (IF v > TemperatureSetpoint + TemperatureAlertBand THEN 1 ELSE 0)

HeldBefore(pre, type) ==
    IF \E i \in 1..Len(pre) : Type(pre[i]) = type
      THEN Len(AllAlerts(pre[CHOOSE i \in 1..Len(pre) : Type(pre[i]) = type]))
      ELSE 0

C20_NotAtomicOnError ==
    [][RaisesAfterMerge(last') =>
         LET pre == Registered(last'.sensor)
             post == RegisteredNext(last'.sensor)
             v == last'.message[1].value
         IN  /\ last'.outcome = "AttributeError"
             /\ last'.texts = <<>>
             /\ last'.removed = <<>>
             /\ Len(post) >= Len(pre)
             /\ \E j \in 1..Len(post) :
                  LET all == AllAlerts(post[j])
                  IN  /\ Type(post[j]) = "TemperatureAlert"
                      /\ Len(all) = HeldBefore(pre, "TemperatureAlert") + Exceeded(v)
                      /\ \A k \in 1..Exceeded(v) :
                           /\ all[Len(all) - k + 1].value = v
                           /\ all[Len(all) - k + 1].timestamp = now
             /\ \A i \in 1..Len(pre) :
                  Type(pre[i]) # "TemperatureAlert" => post[i] = pre[i]]_vars

\* The call raised and left a state whose counts are reached and that was
\* never notified, and beside it a state of another kind
C20_Witness ==
    /\ RaisesAfterMerge(last)
    /\ last.outcome = "AttributeError"
    /\ \E j \in 1..Len(Registered(last.sensor)) :
         LET st == Registered(last.sensor)[j]
         IN  /\ Type(st) = "TemperatureAlert"
             /\ Reached(st.new, AnyAlert)
             /\ st.notified = None
             /\ Len(AllAlerts(st)) > Exceeded(last.message[1].value)
    /\ \E j \in 1..Len(Registered(last.sensor)) :
         Type(Registered(last.sensor)[j]) = "HumidityAlert"


(***************************************************************************)
(* C17: prune() is idempotent at a fixed time: for every registered        *)
(* AlertState and every time from now on, a second prune() at the same     *)
(* time leaves new and archive as the first one left them, and the first   *)
(* one keeps in new exactly the alerts that have not expired, in order.    *)
(***************************************************************************)
Fresh(alerts, t) ==
    LET F[i \in 0..Len(alerts)] ==
          IF i = 0 THEN <<>>
          ELSE IF alerts[i].timestamp >= t - EXPIRY
            THEN Append(F[i - 1], alerts[i]) ELSE F[i - 1]
    IN  F[Len(alerts)]

C17_PruneIdempotent ==
    \A sensor \in DOMAIN handler_alerts :
      \A j \in 1..Len(handler_alerts[sensor]), t \in now..MaxTime :
        LET st == handler_alerts[sensor][j]
            once == Prune(st, t)
            twice == Prune(once, t)
        IN  /\ twice.new = once.new
            /\ twice.archive = once.archive
            /\ once.new = Fresh(st.new, t)
            /\ AllAlerts(once) = AllAlerts(st)

\* A registered state of which prune() archives two alerts and keeps one
C17_Witness ==
    \E sensor \in DOMAIN handler_alerts :
      \E j \in 1..Len(handler_alerts[sensor]), t \in now..MaxTime :
        LET st == handler_alerts[sensor][j]
        IN  /\ Len(Prune(st, t).archive) >= Len(st.archive) + 2
            /\ Prune(st, t).new # <<>>

(***************************************************************************)
(* C18: a state that was pending when a handle() call began and that the   *)
(* call's scan finds inactive (all its new alerts expire at the prune of   *)
(* the scan) has the notifier invoked for it in that call, before the      *)
(* call removes it.                                                        *)
(***************************************************************************)
BecomesInactive(st, l) ==
    /\ Archived(st).new = <<>>
    /\ \A i \in 1..Len(l.updates) : Type(l.updates[i].before) # Type(st)

C18_FiresBeforeRemoval ==
    [][(last'.sensor # "none" /\ last'.outcome = "returned") =>
         \A j \in 1..Len(Registered(last'.sensor)) :
           LET st == Registered(last'.sensor)[j]
           IN  (/\ Reached(st.new, AnyAlert)
                /\ st.notified = None
                /\ BecomesInactive(st, last')) =>
                 Texted(last', Type(st))]_vars


(***************************************************************************)
(* C13: for an absolute Threshold with bounds lower and upper,             *)
(* violated(v, s) is true iff v > s + upper or v < s - lower; a reading on *)
(* either boundary is not a violation.                                     *)
(***************************************************************************)
Ran(fn) == call.fn = fn /\ ret.done

C13_ThresholdBoundaries ==
    Ran("Threshold.violated") =>
      /\ ret.raised = ""
      /\ ret.value <=> \/ call.value - call.setting > call.upper
                       \/ call.setting - call.value > call.lower
      /\ (\/ call.value = call.setting + call.upper
          \/ call.value = call.setting - call.lower) => ~ret.value

\* A reading on the upper boundary of a band whose bounds differ, about a
\* negative set-point, is not a violation
C13_Witness ==
    /\ Ran("Threshold.violated")
    /\ call.lower > call.upper
    /\ call.setting < 0
    /\ call.value = call.setting + call.upper
    /\ ~ret.value

(***************************************************************************)
(* C14: for a FractionThreshold with non-negative fractions lower and      *)
(* upper and any set-point s, violated(v, s) is true iff                   *)
(* v > s + |s| * upper or v < s - |s| * lower, and a reading equal to the  *)
(* set-point is never a violation.  Fractions are in hundredths.           *)
(***************************************************************************)
Abs(x) == IF x < 0 THEN 0 - x ELSE x

C14_ScalesByMagnitude ==
    Ran("FractionThreshold.violated") =>
      /\ ret.raised = ""
      /\ ret.value <=>
           \/ 100 * call.value > 100 * call.setting + Abs(call.setting) * call.upper
           \/ 100 * call.value < 100 * call.setting - Abs(call.setting) * call.lower
      /\ call.value = call.setting => ~ret.value

(***************************************************************************)
(* C15: MonitoredValue(25, warn=3, alert=5).triggers(v) yields one Alert   *)
(* per violated threshold, the warning first, each of the kind of the      *)
(* MonitoredValue and carrying the reading and the set-point: one warning  *)
(* for 29, a warning and an alert for 32, nothing for a reading in band.   *)
(***************************************************************************)
Deviation(v) == Abs(v - TemperatureSetpoint)

Violations(v) ==
    (IF Deviation(v) > TemperatureWarn THEN 1 ELSE 0)
      + (IF Deviation(v) > TemperatureAlertBand THEN 1 ELSE 0)

C15_TriggersPerThreshold ==
    Ran("MonitoredValue.triggers") =>
      /\ ret.raised = ""
      /\ Len(ret.value) = Violations(call.value)
      /\ Len(ret.value) >= 1 => ret.value[1].threshold.level = "warning"
      /\ Len(ret.value) = 2 => ret.value[2].threshold.level = "alert"
      /\ \A i \in 1..Len(ret.value) :
           /\ ret.value[i].type = call.kind
           /\ ret.value[i].value = call.value
           /\ ret.value[i].trigger = TemperatureSetpoint
      /\ call.value = 29 => Len(ret.value) = 1
      /\ call.value = 32 => Len(ret.value) = 2
      /\ call.value = TemperatureSetpoint + TemperatureWarn => ret.value = <<>>

\* Scenario B: reading 32 yielded a warning and an alert
C15_Witness ==
    /\ Ran("MonitoredValue.triggers")
    /\ call.value = 32
    /\ Len(ret.value) = 2
    /\ ret.value[1].threshold.level = "warning"
    /\ ret.value[2].threshold.level = "alert"

(***************************************************************************)
(* C16: MonitoredValue(v_set) without warn and alert is constructed and    *)
(* owns two FractionThresholds: a warning threshold of 10% on both sides   *)
(* and an alert threshold of 20% on both sides.                            *)
(***************************************************************************)
C16_DefaultThresholds ==
    (/\ Ran("MonitoredValue")
     /\ call.warn = NoneValue
     /\ call.alert = NoneValue) =>
      /\ ret.raised = ""
      /\ ret.value.alerts =
           <<[cls |-> "FractionThreshold", lower |-> 10, upper |-> 10,
              level |-> "warning"],
             [cls |-> "FractionThreshold", lower |-> 20, upper |-> 20,
              level |-> "alert"]>>


(***************************************************************************)
(* C11: handle() calls for distinct sensors are independent.  A step of a  *)
(* call for one sensor leaves the list of every other sensor and the       *)
(* AlertStates in it as they were; and a call during which no other call   *)
(* for the same sensor ran, however its steps interleave with calls for    *)
(* other sensors, ends as handle() run on its own from the list it found:  *)
(* same outcome, same notifier invocations, same list of AlertStates.      *)
(***************************************************************************)
Stepped(t) == threads'[t] # threads[t]

Ended(t) == threads[t].pc # "idle" /\ threads'[t].pc = "idle"

C11_SensorsIndependent ==
    [][/\ \A s \in Sensors :
            (\A t \in Threads : Stepped(t) => threads'[t].sensor # s) =>
              /\ StatesOf(lists', s) = StatesOf(lists, s)
              /\ DerefIn(heap', StatesOf(lists', s)) = DerefIn(heap, StatesOf(lists, s))
       /\ \A t \in Threads :
            (Ended(t) /\ threads'[t].alone) =>
              LET th == threads'[t]
                  r == HandleResult([s \in {th.sensor} |-> th.entry], th.sensor,
                                    th.message, now, th.failAt)
              IN  /\ th.outcome = r.outcome
                  /\ th.texts = r.texts
                  /\ DerefIn(heap', lists'[th.sensor]) = r.lst]_vars

\* A call for incubator0 that invoked the notifier has returned; a call for
\* incubator1 ran beside it and is between its transport call and the
\* assignment of notified
C11_Witness ==
    \E t \in Threads, u \in Threads :
      /\ threads[t].pc = "idle"
      /\ threads[t].sensor = "incubator0"
      /\ threads[t].outcome = "returned"
      /\ threads[t].texts # <<>>
      /\ threads[t].parallel
      /\ threads[u].pc = "stamp"
      /\ threads[u].sensor = "incubator1"
      /\ threads[u].parallel

(***************************************************************************)
(* C19: two handle() calls for one sensor that interleave can leave two    *)
(* AlertStates of one kind in the sensor's list, or invoke the notifier    *)
(* twice on one AlertState with no escalation in between; as long as the   *)
(* calls for each sensor are serialized neither happens.                   *)
(***************************************************************************)
TwoOfAKind ==
    \E s \in DOMAIN lists :
      \E i, j \in 1..Len(lists[s]) :
        /\ i # j
        /\ Type(heap[lists[s][i]].st) = Type(heap[lists[s][j]].st)

FiredTwice == \E id \in ObjectIds : heap[id].live /\ heap[id].fired >= 2

C19_SerializedIsSafe == ~overlapped => ~(TwoOfAKind \/ FiredTwice)

\* Two interleaved calls have registered two states of one kind
C19_Witness == overlapped /\ TwoOfAKind

\* Two interleaved calls have invoked the notifier twice on one state
C19_WitnessFiredTwice ==
    /\ overlapped
    /\ FiredTwice
    /\ \A t \in Threads : threads[t].outcome # "TransportError"

=============================================================================
